---- MODULE Spec2Model ----
(***************************************************************************)
(* Model of custom_components/coverplus/cover.py: TiltVirtualCover, the    *)
(* virtual cover that simulates position and tilt of a real cover that     *)
(* only understands open_cover / close_cover / stop_cover.                 *)
(*                                                                         *)
(* Every command of the entity is a coroutine on the asyncio event loop.   *)
(* A coroutine runs without interruption from one suspension point (an     *)
(* await that yields: asyncio.sleep) to the next; the variable running     *)
(* names the coroutine that holds the loop (0: the loop is free) and       *)
(* tasks[i].pc its position.  Home Assistant does not serialise the        *)
(* service calls of one entity, so several command coroutines of the same  *)
(* cover may be suspended at the same time.                                *)
(*                                                                         *)
(* Floats are modelled in exact fixed point: a percentage x is stored as   *)
(* x * Scale, and the calibrations are chosen so that the per-millisecond  *)
(* rates are whole numbers of that unit.  Rounding error of IEEE doubles   *)
(* is not modelled.                                                        *)
(***************************************************************************)
EXTENDS Integers, Sequences, FiniteSets, TLC

\* ------------------------------------------------------------- bounds
\* Number of coroutines alive at once, and of positional commands called in
\* one run (each call is a coroutine of its own).  The slot of a stop is
\* reused when the stop has returned, so stops are not counted.
MaxCalls == 2

\* ---------------------------------------------------------- constants
UP == "UP"
DOWN == "DOWN"
STOPPED == "STOPPED"
Directions == {UP, DOWN, STOPPED}

\* EPS = 1e-6 as the fraction EpsNum / EpsDen
EpsNum == 1
EpsDen == 1000000

TICK_MS == 100

\* Fixed-point unit: stored value = percent * Scale.  60 makes the rates of
\* the calibrations below whole numbers (100 * Scale / travel time).
Scale == 6 * 10
Full == 100 * Scale

\* Calibrations drawn from the accepted ranges (open_time_sec 1..3600,
\* tilt_time_ms 100..60000; the config flow's default tilt time is 750).
OpenTimeSecs == {1, 2}
TiltTimesMs == {100, 150, 750}
\* the calibration of the runs with concurrent commands
CoreOpenTimeSecs == {1}
CoreTiltTimesMs == {150}

\* Arguments of the commands (percent, 0..100), and "no argument".
NoArg == -1
PositionArgs == {30, 100}
TiltArgs == {1, 100}
\* <<position, tilt>> of set_position_and_tilt
BothArgs == {<<NoArg, NoArg>>, <<30, NoArg>>, <<NoArg, 1>>, <<100, 0>>}

Tasks == 1 .. MaxCalls

VARIABLES
    open_time_millis,       \* self._open_time_millis
    tilt_time_millis,       \* self._tilt_time_millis
    last_position,          \* self.last_position   (percent * Scale)
    last_tilt,              \* self.last_tilt       (percent * Scale)
    last_timestamp_millis,  \* self.last_timestamp_millis, abstracted (see TS)
    last_direction,         \* self.last_direction
    cancel_requested,       \* self._cancel_requested
    attr,                   \* what _push_state last published
    added,                  \* async_added_to_hass has run
    tasks,                  \* the command coroutines
    running,                \* the coroutine holding the event loop, or 0
    sent                    \* the last two raw commands dispatched, oldest first

vars == <<open_time_millis, tilt_time_millis, last_position, last_tilt,
          last_timestamp_millis, last_direction, cancel_requested, attr,
          added, tasks, running, sent>>

calib == <<open_time_millis, tilt_time_millis>>

\* ------------------------------------------------------------ helpers
Abs(x) == IF x < 0 THEN 0 - x ELSE x
Min(a, b) == IF a < b THEN a ELSE b
Max(a, b) == IF a > b THEN a ELSE b

\* abs(a - b) < EPS, that is Abs(a - b) * EpsDen < EpsNum * Scale, written
\* with a division to stay within 32-bit integers
Near(a, b) == Abs(a - b) <= (EpsNum * Scale - 1) \div EpsDen
\* abs(a - b) > EPS, that is Abs(a - b) * EpsDen > EpsNum * Scale
Far(a, b) == Abs(a - b) > (EpsNum * Scale) \div EpsDen

\* 100.0 / travel time, in stored units per millisecond
position_rate_per_ms == (100 * Scale) \div open_time_millis
tilt_rate_per_ms == (100 * Scale) \div tilt_time_millis

\* int(round(x)): Python rounds halves to the even integer
IntRound(x) ==
    LET q == x \div Scale
        r == x % Scale
    IN  IF 2 * r < Scale THEN q
        ELSE IF 2 * r > Scale THEN q + 1
        ELSE IF q % 2 = 0 THEN q ELSE q + 1

\* The abstract values of last_timestamp_millis: the constructor's 0, a
\* restored value, a value advanced by simulated slices, a value resynced
\* to the monotonic clock.
TS == {"zero", "restored", "sim", "now"}

\* _snapshot() as published by async_write_ha_state, with the two integer
\* attributes _push_state computes
Published(p, t, d) ==
    [position |-> IntRound(p), tilt |-> IntRound(t),
     last_position |-> p, last_tilt |-> t, last_direction |-> d]

\* _clamp, per field
ClampFieldNoLower(x) == Min(Full, x)
ClampField(x) == Max(0, Min(Full, x))

\* the raw command _motor sends for a direction
RawOf(d) ==
    IF d = STOPPED THEN "stop_cover"
    ELSE IF d = UP THEN "open_cover" ELSE "close_cover"

\* the log of dispatched raw commands keeps the last two
Dispatch(log, c) ==
    IF Len(log) < 2 THEN Append(log, c) ELSE <<log[2], c>>

\* ------------------------------------------------------------- tasks
\* A free slot.  cmd: the command; tp, tt: _act's targets; tdir: _act's
\* target_direction; mdir, mret:
\* _motor's argument and the label it returns to; itgt, iret: the
\* integrator's target and the label it returns to (locals are reset when
\* their call returns).  History fields (not program state): below: the
\* position argument was below last_position when the command was called;
\* stopped: the direction was STOPPED when the command was called;
\* cancelled: an integrator of this _act has taken its cancel branch;
\* mfail: a dispatch of the current _motor call has failed; failed: a
\* dispatch of this coroutine has failed; halted: async_stop_cover was
\* called while this _act was asleep in an integrator.
Free ==
    [pc |-> "free", cmd |-> "none", tp |-> 0, tt |-> 0,
     tdir |-> STOPPED, mdir |-> STOPPED, mret |-> "free", itgt |-> 0, iret |-> "free",
     below |-> FALSE, stopped |-> FALSE, cancelled |-> FALSE, mfail |-> FALSE,
     failed |-> FALSE, halted |-> FALSE]

\* a slot whose coroutine has returned
Returned == [Free EXCEPT !.pc = "returned"]

\* call _motor(d) from coroutine t, to return at label ret
CallMotor(t, d, ret) == [t EXCEPT !.pc = "motor", !.mdir = d, !.mret = ret, !.mfail = FALSE]

\* float(max(0.0, min(100.0, x)))
ClampTarget(x) == Max(0, Min(Full, x))

\* _act_tilt(target) called from coroutine t, to return at label ret
CallTilt(t, target, ret) ==
    [t EXCEPT !.pc = "tilt", !.itgt = ClampTarget(target), !.iret = ret]

\* _act_position(target, direction) called from coroutine t
CallPosition(t, target, ret) ==
    [t EXCEPT !.pc = "pos", !.itgt = ClampTarget(target), !.iret = ret]

\* the pre-tilt extreme of a move direction: 100.0 if UP else 0.0
PreTiltTargetSame(d) == IF d = UP THEN 0 ELSE Full
PreTiltTarget(d) == IF d = UP THEN Full ELSE 0

\* _act from the return of one call to its next call, where nothing of the
\* cover's state is read in between (t.pc is the label returned to):
\*   tilt_only:  after _motor(tilt_direction), _act_tilt(target_tilt)
\*   pre_tilt:   after _motor(target_direction), the pre-tilt
\*   position:   after the pre-tilt, _act_position(target_position, ...)
\*   post_tilt:  after _motor(post_dir), _act_tilt(target_tilt)
\*   final_stop: after the last integrator, _motor(STOPPED)
\* The integrators return to _act in the same way whether their loop broke
\* at the target or took its cancel branch.
ActNext(t) ==
    IF t.pc = "tilt_only" THEN CallTilt(t, t.tt, "final_stop")
    ELSE IF t.pc = "pre_tilt" THEN CallTilt(t, PreTiltTarget(t.tdir), "position")
    ELSE IF t.pc = "position" THEN CallPosition(t, t.tp, "post_check")
    ELSE IF t.pc = "post_tilt" THEN CallTilt(t, t.tt, "final_stop")
    ELSE IF t.pc = "final_stop" THEN CallMotor(t, STOPPED, "act_end")
    ELSE t

\* _motor returns from coroutine t to its caller
MotorReturn(t) ==
    ActNext([t EXCEPT !.pc = t.mret, !.mdir = STOPPED, !.mret = "free", !.mfail = FALSE])

\* an integrator returns from coroutine t to _act
LoopReturn(t) == ActNext([t EXCEPT !.pc = t.iret, !.itgt = 0, !.iret = "free"])

\* the coroutine i holds the loop and is at label l
At(i, l) == running = i /\ tasks[i].pc = l
\* the coroutine i is suspended at label l and the loop is free
Suspended(i, l) == running = 0 /\ tasks[i].pc = l

\* the _act of coroutine i is asleep between two ticks of an integrator
BetweenTicks(i) == tasks[i].pc \in {"tilt_sleep", "pos_sleep"}

\* the lowest free slot
FreeSlot(i) ==
    /\ tasks[i].pc = "free"
    /\ \A j \in Tasks : j < i => tasks[j].pc # "free"

\* ---------------------------------------------------------------- Init
\* __init__ (position 0, tilt 0, STOPPED, nothing published yet but the
\* cached attributes 0/0), for each calibration.
Construct(open_time_secs, tilt_times_ms) ==
    /\ open_time_millis \in {s * 1000 : s \in open_time_secs}
    /\ tilt_time_millis \in tilt_times_ms
    /\ last_position = 0
    /\ last_tilt = 0
    /\ last_timestamp_millis = "zero"
    /\ last_direction = STOPPED
    /\ cancel_requested = FALSE
    /\ attr = Published(0, 0, STOPPED)
    /\ added = FALSE
    /\ tasks = [i \in Tasks |-> Free]
    /\ running = 0
    /\ sent = <<>>

Init == Construct(CoreOpenTimeSecs, CoreTiltTimesMs)

\* the same for every calibration of the model
InitSeq == Construct(OpenTimeSecs, TiltTimesMs)

\* ------------------------------------------------------------ restore
\* A persisted attribute: absent (None), malformed (float()/int() raises)
\* or a number.
Absent == [k |-> "absent", v |-> 0]
Bad == [k |-> "bad", v |-> 0]
Val(x) == [k |-> "ok", v |-> x]

\* The snapshots async_get_last_state may return: nothing persisted, a
\* full valid one, an invalid direction, a malformed position, a position
\* out of range.
CoreSnapshots ==
    { [p |-> Absent, t |-> Absent, ts |-> Absent, d |-> "absent"],
      [p |-> Val(50 * Scale), t |-> Val(100 * Scale), ts |-> Val(7), d |-> UP] }

Snapshots ==
    { [p |-> Absent, t |-> Absent, ts |-> Absent, d |-> "absent"],
      [p |-> Val(50 * Scale), t |-> Val(100 * Scale), ts |-> Val(7), d |-> UP],
      [p |-> Val(50 * Scale), t |-> Val(100 * Scale), ts |-> Val(7), d |-> "SIDEWAYS"],
      [p |-> Bad, t |-> Val(100 * Scale), ts |-> Val(7), d |-> DOWN],
      [p |-> Val(150 * Scale), t |-> Val(100 * Scale), ts |-> Absent, d |-> STOPPED] }

\* The try block of async_added_to_hass: the fields are read in order and
\* the first malformed one raises, which skips the rest.
RestoredState(s) ==
    LET okP == s.p.k # "bad"
        okT == okP /\ s.t.k # "bad"
        okTs == okT /\ s.ts.k # "bad"
    IN  [position |-> IF s.p.k = "ok" THEN s.p.v ELSE last_position,
         tilt |-> IF okP /\ s.t.k = "ok" THEN s.t.v ELSE last_tilt,
         ts |-> IF okT /\ s.ts.k = "ok" THEN "restored" ELSE last_timestamp_millis,
         direction |-> IF okTs /\ s.d \in Directions THEN s.d ELSE last_direction]

\* async_added_to_hass: restore, then _push_state; the persisted snapshot
\* is one of S
AddedToHass(S) ==
    /\ ~added
    /\ \E s \in S :
         LET r == RestoredState(s)
         IN  /\ last_position' = r.position
             /\ last_tilt' = r.tilt
             /\ last_timestamp_millis' = r.ts
             /\ last_direction' = r.direction
             /\ attr' = Published(r.position, r.tilt, r.direction)
    /\ added' = TRUE
    /\ UNCHANGED <<calib, cancel_requested, tasks, running, sent>>

\* ----------------------------------------------------------- commands
\* A command may be called whenever the event loop is free; its coroutine
\* starts at once and runs to its first suspension.
CanCall(i) == added /\ running = 0 /\ FreeSlot(i)

\* the command handler's call of _act(target_position, target_tilt)
CallAct(i, c, p, t) ==
    /\ tasks' = [tasks EXCEPT ![i] =
                   [Free EXCEPT !.pc = "act", !.cmd = c, !.tp = p, !.tt = t,
                                !.below = (c = "set_position" /\ p < last_position),
                                !.stopped = (last_direction = STOPPED)]]
    /\ running' = i
    /\ UNCHANGED <<calib, last_position, last_tilt, last_timestamp_millis,
                   last_direction, cancel_requested, attr, added, sent>>

\* set_position's mapped target tilt: 0.0 if tp < self.last_position else 100.0
MappedTiltInverted(p) == IF p < last_position THEN Full ELSE 0
MappedTilt(p) == IF p < last_position THEN 0 ELSE Full

async_open_cover(i) == CanCall(i) /\ CallAct(i, "open", Full, Full)

async_close_cover(i) == CanCall(i) /\ CallAct(i, "close", 0, 0)

\* the (target_position, target_tilt) set_position(p) passes to _act
SetPositionTargets(p) == <<p * Scale, MappedTilt(p * Scale)>>

async_set_cover_position(i) ==
    /\ CanCall(i)
    /\ \E p \in PositionArgs :
         CallAct(i, "set_position", SetPositionTargets(p)[1], SetPositionTargets(p)[2])

\* the (target_position, target_tilt) set_tilt(t) passes to _act
SetTiltTargets(t) == <<last_position, t * Scale>>

async_set_cover_tilt_position(i) ==
    /\ CanCall(i)
    /\ \E t \in TiltArgs :
         CallAct(i, "set_tilt", SetTiltTargets(t)[1], SetTiltTargets(t)[2])

\* the (target_position, target_tilt) set_position_and_tilt(p, t) passes to
\* _act when at least one of p, t is given: tilt only, position only with
\* its own mapped tilt (ttv), both
SetBothTargetsTiltKept(p, t) ==
    IF p = NoArg THEN <<last_position, t * Scale>>
    ELSE IF t = NoArg THEN <<p * Scale, last_tilt>>
    ELSE <<p * Scale, t * Scale>>

SetBothTargets(p, t) ==
    IF p = NoArg THEN <<last_position, t * Scale>>
    ELSE IF t = NoArg THEN <<p * Scale, IF p * Scale < last_position THEN 0 ELSE Full>>
    ELSE <<p * Scale, t * Scale>>

\* set_position_and_tilt(position?, tilt?); with neither it returns at once
async_set_position_and_tilt(i) ==
    /\ CanCall(i)
    /\ \E a \in BothArgs :
         LET p == a[1]
             t == a[2]
         IN
         IF p = NoArg /\ t = NoArg THEN
             /\ tasks' = [tasks EXCEPT ![i] = [Free EXCEPT !.pc = "done", !.cmd = "set_both"]]
             /\ running' = i
             /\ UNCHANGED <<calib, last_position, last_tilt, last_timestamp_millis,
                            last_direction, cancel_requested, attr, added, sent>>
         ELSE CallAct(i, "set_both", SetBothTargets(p, t)[1], SetBothTargets(p, t)[2])

\* async_stop_cover up to its call of _motor(STOPPED)
async_stop_cover(i) ==
    /\ CanCall(i)
    /\ cancel_requested' = TRUE
    /\ tasks' = [j \in Tasks |->
                   IF j = i THEN CallMotor([Free EXCEPT !.cmd = "stop"], STOPPED, "stop_end")
                   ELSE IF BetweenTicks(j) THEN [tasks[j] EXCEPT !.halted = TRUE]
                   ELSE tasks[j]]
    /\ running' = i
    /\ UNCHANGED <<calib, last_position, last_tilt, last_timestamp_millis,
                   last_direction, attr, added, sent>>

\* async_stop_cover after _motor(STOPPED) has returned
StopEnd(i) ==
    /\ At(i, "stop_end")
    /\ last_direction' = STOPPED
    /\ last_timestamp_millis' = "now"
    /\ attr' = Published(last_position, last_tilt, STOPPED)
    /\ tasks' = [tasks EXCEPT ![i] = [Returned EXCEPT !.pc = "done", !.cmd = tasks[i].cmd,
                         !.tp = tasks[i].tp, !.tt = tasks[i].tt, !.below = tasks[i].below,
                         !.stopped = tasks[i].stopped, !.cancelled = tasks[i].cancelled,
                         !.failed = tasks[i].failed]]
    /\ UNCHANGED <<calib, last_position, last_tilt, cancel_requested, added, running, sent>>

\* a command coroutine returns to the event loop
Return(i) ==
    /\ At(i, "done")
    /\ tasks' = [tasks EXCEPT ![i] = IF tasks[i].cmd = "stop" THEN Free ELSE Returned]
    /\ running' = 0
    /\ UNCHANGED <<calib, last_position, last_tilt, last_timestamp_millis,
                   last_direction, cancel_requested, attr, added, sent>>

\* ------------------------------------------------------------- _motor
\* the state other than what _motor and _svc write
MotorFrame == UNCHANGED <<calib, last_position, last_tilt, last_timestamp_millis, attr, added>>

\* _motor's reversal test: both directions moving and different
IsReversal(from, to) == from \in {UP, DOWN} /\ to \in {UP, DOWN} /\ to # from

\* _motor(direction), entry: nothing to do when the direction is already
\* the requested one; a reversal stops first; otherwise the raw command.
MotorAlwaysSends(i) ==
    /\ At(i, "motor")
    /\ tasks' = [tasks EXCEPT ![i].pc =
                   IF IsReversal(last_direction, tasks[i].mdir) THEN "m_stop" ELSE "m_cmd"]
    /\ UNCHANGED <<last_direction, cancel_requested, running, sent>>
    /\ MotorFrame

Motor(i) ==
    /\ At(i, "motor")
    /\ tasks' = [tasks EXCEPT ![i] =
                   IF tasks[i].mdir = last_direction THEN MotorReturn(tasks[i])
                   ELSE IF IsReversal(last_direction, tasks[i].mdir)
                        THEN [tasks[i] EXCEPT !.pc = "m_stop"]
                        ELSE [tasks[i] EXCEPT !.pc = "m_cmd"]]
    /\ UNCHANGED <<last_direction, cancel_requested, running, sent>>
    /\ MotorFrame

\* _svc("stop_cover") of a reversal: the call is handed to the loop and the
\* coroutine yields (asyncio.sleep(0)) inside _svc
MotorStopFirst(i) ==
    /\ At(i, "m_stop")
    /\ sent' = Dispatch(sent, "stop_cover")
    /\ tasks' = [tasks EXCEPT ![i].pc = "m_stop_sent"]
    /\ running' = 0
    /\ UNCHANGED <<last_direction, cancel_requested>>
    /\ MotorFrame

\* the cancel flag after _svc's except branch: self._cancel_requested = True
CancelAfterFailKept == cancel_requested
CancelAfterFail == TRUE

\* the same, the dispatch raising: _svc's except branch, then _motor's own
\* asyncio.sleep(0)
MotorStopFirstFail(i) ==
    /\ At(i, "m_stop")
    /\ cancel_requested' = CancelAfterFail
    /\ last_direction' = STOPPED
    /\ tasks' = [tasks EXCEPT ![i].pc = "m_sleep", ![i].mfail = TRUE, ![i].failed = TRUE]
    /\ running' = 0
    /\ UNCHANGED sent
    /\ MotorFrame

\* _svc("stop_cover") resumes and returns; _motor's asyncio.sleep(0) yields
MotorAfterStop(i) ==
    /\ Suspended(i, "m_stop_sent")
    /\ tasks' = [tasks EXCEPT ![i].pc = "m_sleep"]
    /\ UNCHANGED <<last_direction, cancel_requested, running, sent>>
    /\ MotorFrame

\* _motor is about to send the raw command of its direction: straight from
\* the entry, or resumed after the reversal's sleep(0)
AtMotorCmd(i) == At(i, "m_cmd") \/ Suspended(i, "m_sleep")

\* _svc(raw command of direction): dispatched, and the coroutine yields
MotorCmd(i) ==
    /\ AtMotorCmd(i)
    /\ sent' = Dispatch(sent, RawOf(tasks[i].mdir))
    /\ tasks' = [tasks EXCEPT ![i].pc = "m_sent"]
    /\ running' = 0
    /\ UNCHANGED <<last_direction, cancel_requested>>
    /\ MotorFrame

\* what _motor leaves in last_direction after a failed dispatch: _svc's
\* except branch sets STOPPED, then line 345 assigns the requested direction
DirectionAfterFail(d) == d

\* the same, the dispatch raising: _svc sets the cancel flag and STOPPED and
\* returns without yielding; _motor goes on to its last assignment
MotorCmdFail(i) ==
    /\ AtMotorCmd(i)
    /\ cancel_requested' = CancelAfterFail
    /\ last_direction' = DirectionAfterFail(tasks[i].mdir)
    /\ tasks' = [tasks EXCEPT ![i] = MotorReturn([tasks[i] EXCEPT !.failed = TRUE])]
    /\ running' = i
    /\ UNCHANGED sent
    /\ MotorFrame

\* _svc resumes and returns; self.last_direction = direction; _motor returns
MotorSet(i) ==
    /\ Suspended(i, "m_sent")
    /\ last_direction' = tasks[i].mdir
    /\ tasks' = [tasks EXCEPT ![i] = MotorReturn(tasks[i])]
    /\ running' = i
    /\ UNCHANGED <<cancel_requested, sent>>
    /\ MotorFrame

\* ------------------------------------------------------- integrators
\* millis_to_boundary = int(abs(need) / rate)
MillisToBoundary(need, rate) == Abs(need) \div rate

\* slice_millis = max(1, min(TICK_MS, mtb if mtb > 0 else TICK_MS))
SliceMillis(mtb) == Max(1, Min(TICK_MS, IF mtb > 0 THEN mtb ELSE TICK_MS))

StepSign(need) == IF need > 0 THEN 1 ELSE 0 - 1

\* current + rate * slice_millis * step_sign, before _clamp
Advance(current, target, rate) ==
    LET need == target - current
    IN  current + rate * SliceMillis(MillisToBoundary(need, rate)) * StepSign(need)

\* the head of an integrator's while loop: just entered, or resumed from
\* the asyncio.sleep that ends an iteration
AtHead(i, l) == At(i, l) \/ Suspended(i, l \o "_sleep")

\* the state an integrator does not write outside its cancel branch
LoopFrame == UNCHANGED <<calib, last_direction, cancel_requested, added, sent>>

\* the loop's test of the cancel flag
SeesCancelNever == FALSE
SeesCancel == cancel_requested

\* _act_tilt: if self._cancel_requested: await self._motor(STOPPED) ...
TiltCancel(i) ==
    /\ AtHead(i, "tilt")
    /\ SeesCancel
    /\ tasks' = [tasks EXCEPT ![i] =
                   CallMotor([tasks[i] EXCEPT !.cancelled = TRUE], STOPPED, "tilt_cancelled")]
    /\ running' = i
    /\ UNCHANGED <<last_position, last_tilt, last_timestamp_millis, attr>>
    /\ LoopFrame

\* ... resync the timestamp, publish, return
TiltCancelled(i) ==
    /\ At(i, "tilt_cancelled")
    /\ last_timestamp_millis' = "now"
    /\ attr' = Published(last_position, last_tilt, last_direction)
    /\ tasks' = [tasks EXCEPT ![i] = LoopReturn(tasks[i])]
    /\ UNCHANGED <<last_position, last_tilt, running>>
    /\ LoopFrame

\* _act_tilt: abs(need) < EPS: break, and return
TiltBreak(i) ==
    /\ AtHead(i, "tilt")
    /\ ~SeesCancel
    /\ Near(tasks[i].itgt, last_tilt)
    /\ tasks' = [tasks EXCEPT ![i] = LoopReturn(tasks[i])]
    /\ running' = i
    /\ UNCHANGED <<last_position, last_tilt, last_timestamp_millis, attr>>
    /\ LoopFrame

\* _act_tilt: one integration step, _clamp, _push_state, sleep
TiltStep(i) ==
    /\ AtHead(i, "tilt")
    /\ ~SeesCancel
    /\ ~Near(tasks[i].itgt, last_tilt)
    /\ LET t == ClampField(Advance(last_tilt, tasks[i].itgt, tilt_rate_per_ms))
           p == ClampField(last_position)
       IN  /\ last_tilt' = t
           /\ last_position' = p
           /\ attr' = Published(p, t, last_direction)
    /\ last_timestamp_millis' = "sim"
    /\ tasks' = [tasks EXCEPT ![i].pc = "tilt_sleep"]
    /\ running' = 0
    /\ LoopFrame

\* _act_position: the cancel branch
PosCancel(i) ==
    /\ AtHead(i, "pos")
    /\ SeesCancel
    /\ tasks' = [tasks EXCEPT ![i] =
                   CallMotor([tasks[i] EXCEPT !.cancelled = TRUE], STOPPED, "pos_cancelled")]
    /\ running' = i
    /\ UNCHANGED <<last_position, last_tilt, last_timestamp_millis, attr>>
    /\ LoopFrame

PosCancelled(i) ==
    /\ At(i, "pos_cancelled")
    /\ last_timestamp_millis' = "now"
    /\ attr' = Published(last_position, last_tilt, last_direction)
    /\ tasks' = [tasks EXCEPT ![i] = LoopReturn(tasks[i])]
    /\ UNCHANGED <<last_position, last_tilt, running>>
    /\ LoopFrame

\* _act_position: abs(need) < EPS: break, and return
PosBreak(i) ==
    /\ AtHead(i, "pos")
    /\ ~SeesCancel
    /\ Near(tasks[i].itgt, last_position)
    /\ tasks' = [tasks EXCEPT ![i] = LoopReturn(tasks[i])]
    /\ running' = i
    /\ UNCHANGED <<last_position, last_tilt, last_timestamp_millis, attr>>
    /\ LoopFrame

\* _act_position: one integration step, _clamp, _push_state, sleep
PosStep(i) ==
    /\ AtHead(i, "pos")
    /\ ~SeesCancel
    /\ ~Near(tasks[i].itgt, last_position)
    /\ LET p == ClampField(Advance(last_position, tasks[i].itgt, position_rate_per_ms))
           t == ClampField(last_tilt)
       IN  /\ last_position' = p
           /\ last_tilt' = t
           /\ attr' = Published(p, t, last_direction)
    /\ last_timestamp_millis' = "sim"
    /\ tasks' = [tasks EXCEPT ![i].pc = "pos_sleep"]
    /\ running' = 0
    /\ LoopFrame

\* --------------------------------------------------------------- _act
\* what _act's steps between its calls leave alone
ActFrame == UNCHANGED <<calib, last_position, last_tilt, last_timestamp_millis,
                        last_direction, attr, added, running, sent>>

\* _act, entry: clear the cancel flag, clamp the targets, choose the path
\* (idle, tilt only, move sequence) and call _motor
Act(i) ==
    /\ At(i, "act")
    /\ cancel_requested' = FALSE
    /\ LET tp == ClampTarget(tasks[i].tp)
           tt == ClampTarget(tasks[i].tt)
           t == [tasks[i] EXCEPT !.tp = tp, !.tt = tt]
       IN  tasks' = [tasks EXCEPT ![i] =
             IF Near(tp, last_position) THEN
                 IF Near(tt, last_tilt) THEN CallMotor(t, STOPPED, "idle_end")
                 ELSE CallMotor(t, IF tt > last_tilt THEN UP ELSE DOWN, "tilt_only")
             ELSE
                 LET d == IF tp > last_position THEN UP ELSE DOWN
                 IN  CallMotor([t EXCEPT !.tdir = d], d, "pre_tilt")]
    /\ ActFrame

\* idle path, after _motor(STOPPED): resync the timestamp, publish, return
IdleEnd(i) ==
    /\ At(i, "idle_end")
    /\ last_timestamp_millis' = "now"
    /\ attr' = Published(last_position, last_tilt, last_direction)
    /\ tasks' = [tasks EXCEPT ![i] = [Returned EXCEPT !.pc = "done", !.cmd = tasks[i].cmd,
                         !.tp = tasks[i].tp, !.tt = tasks[i].tt, !.below = tasks[i].below,
                         !.stopped = tasks[i].stopped, !.cancelled = tasks[i].cancelled,
                         !.failed = tasks[i].failed]]
    /\ UNCHANGED <<calib, last_position, last_tilt, last_direction, cancel_requested,
                   added, running, sent>>

\* move sequence, after _act_position has returned: the post-tilt test
\* (target_tilt is not None and abs(target_tilt - self.last_tilt) > EPS)
ActPostTilt(i) ==
    /\ At(i, "post_check")
    /\ tasks' = [tasks EXCEPT ![i] =
                   IF Far(tasks[i].tt, last_tilt)
                   THEN CallMotor(tasks[i], IF tasks[i].tt > last_tilt THEN UP ELSE DOWN,
                                  "post_tilt")
                   ELSE ActNext([tasks[i] EXCEPT !.pc = "final_stop"])]
    /\ UNCHANGED cancel_requested
    /\ ActFrame

\* the end of the tilt-only path and of the move sequence, after
\* _motor(STOPPED): resync the timestamp, _clamp, _push_state, return
ActEnd(i) ==
    /\ At(i, "act_end")
    /\ last_timestamp_millis' = "now"
    /\ LET p == ClampField(last_position)
           t == ClampField(last_tilt)
       IN  /\ last_position' = p
           /\ last_tilt' = t
           /\ attr' = Published(p, t, last_direction)
    /\ tasks' = [tasks EXCEPT ![i] = [Returned EXCEPT !.pc = "done", !.cmd = tasks[i].cmd,
                         !.tp = tasks[i].tp, !.tt = tasks[i].tt, !.below = tasks[i].below,
                         !.stopped = tasks[i].stopped, !.cancelled = tasks[i].cancelled,
                         !.failed = tasks[i].failed]]
    /\ UNCHANGED <<calib, last_direction, cancel_requested, added, running, sent>>

\* ------------------------------------------------------ specifications
\* a command is called
Command(i) ==
    \/ async_open_cover(i)
    \/ async_close_cover(i)
    \/ async_set_cover_position(i)
    \/ async_set_cover_tilt_position(i)
    \/ async_set_position_and_tilt(i)

\* a step of _motor whose dispatches succeed
MotorStep(i) ==
    \/ Motor(i)
    \/ MotorStopFirst(i)
    \/ MotorAfterStop(i)
    \/ MotorCmd(i)
    \/ MotorSet(i)

\* a dispatch raises
DispatchFailure(i) ==
    \/ MotorStopFirstFail(i)
    \/ MotorCmdFail(i)

\* a step of an uncancelled _act
ActStep(i) ==
    \/ Act(i)
    \/ IdleEnd(i)
    \/ ActPostTilt(i)
    \/ ActEnd(i)
    \/ TiltBreak(i)
    \/ TiltStep(i)
    \/ PosBreak(i)
    \/ PosStep(i)
    \/ Return(i)

\* a step of a cancel branch
CancelStep(i) ==
    \/ TiltCancel(i)
    \/ TiltCancelled(i)
    \/ PosCancel(i)
    \/ PosCancelled(i)

Next ==
    \/ AddedToHass(CoreSnapshots)
    \/ \E i \in Tasks :
         \/ Command(i)
         \/ async_stop_cover(i)
         \/ StopEnd(i)
         \/ MotorStep(i)
         \/ DispatchFailure(i)
         \/ ActStep(i)
         \/ CancelStep(i)

\* any interleaving of commands, stops and dispatch failures
Spec == Init /\ [][Next]_vars

\* the same with every dispatch succeeding
NextNoFail ==
    \/ AddedToHass(CoreSnapshots)
    \/ \E i \in Tasks :
         \/ Command(i)
         \/ async_stop_cover(i)
         \/ StopEnd(i)
         \/ MotorStep(i)
         \/ ActStep(i)
         \/ CancelStep(i)

NoFailSpec == Init /\ [][NextNoFail]_vars

\* no _act is in progress: every coroutine alive is a stop
NoAct == \A j \in Tasks : tasks[j].pc \in {"free", "returned"} \/ tasks[j].cmd = "stop"

\* Stops called at any time, and commands called only when no _act is in
\* progress: no other command is issued while one runs.  Dispatches may fail.
NextStop ==
    \/ AddedToHass(CoreSnapshots)
    \/ \E i \in Tasks :
         \/ NoAct /\ Command(i)
         \/ async_stop_cover(i)
         \/ StopEnd(i)
         \/ MotorStep(i)
         \/ DispatchFailure(i)
         \/ ActStep(i)
         \/ CancelStep(i)

StopSpec == Init /\ [][NextStop]_vars

\* no coroutine is alive
Quiet == \A j \in Tasks : tasks[j].pc \in {"free", "returned"}

\* Commands called one after the other, each run to its end: no stop, no
\* dispatch failure, no second command while one runs.
NextSeq ==
    \/ AddedToHass(Snapshots)
    \/ \E i \in Tasks :
         \/ Quiet /\ Command(i)
         \/ MotorStep(i)
         \/ ActStep(i)

\* the event loop runs every coroutine that can run
SeqSpec ==
    InitSeq /\ [][NextSeq]_vars /\ WF_vars(\E i \in Tasks : MotorStep(i) \/ ActStep(i))

\* _motor(d) called directly on a cover that is STOPPED and has dispatched
\* nothing yet, to be called a second time with the same argument when it
\* returns (the argument is kept in tdir)
MotorTwice(i) ==
    /\ CanCall(i)
    /\ Quiet
    /\ last_direction = STOPPED
    /\ sent = <<>>
    /\ \E d \in Directions :
         tasks' = [tasks EXCEPT ![i] =
                     CallMotor([Free EXCEPT !.cmd = "motor_twice", !.tdir = d], d, "motor_again")]
    /\ running' = i
    /\ UNCHANGED <<calib, last_position, last_tilt, last_timestamp_millis,
                   last_direction, cancel_requested, attr, added, sent>>

\* the second of the two calls
MotorAgain(i) ==
    /\ At(i, "motor_again")
    /\ tasks' = [tasks EXCEPT ![i] = CallMotor(tasks[i], tasks[i].tdir, "done")]
    /\ UNCHANGED <<calib, last_position, last_tilt, last_timestamp_millis,
                   last_direction, cancel_requested, attr, added, running, sent>>

NextMotor ==
    \/ AddedToHass(Snapshots)
    \/ \E i \in Tasks :
         \/ MotorTwice(i)
         \/ MotorAgain(i)
         \/ Motor(i)
         \/ MotorCmd(i)
         \/ MotorSet(i)
         \/ Return(i)

\* _motor alone, called twice in a row, every dispatch succeeding
MotorSpec == InitSeq /\ [][NextMotor]_vars

\* open() and close() called at any time, also while an earlier one is in
\* progress; no stop and no dispatch failure.
NextSupersede ==
    \/ AddedToHass(CoreSnapshots)
    \/ \E i \in Tasks :
         \/ async_open_cover(i)
         \/ async_close_cover(i)
         \/ MotorStep(i)
         \/ ActStep(i)

\* the event loop is fair to every coroutine: one that is ready again and
\* again (its sleep or its dispatch has ended) is run
SupersedeSpec ==
    Init /\ [][NextSupersede]_vars
         /\ \A i \in Tasks : SF_vars(MotorStep(i) \/ ActStep(i))

\* ------------------------------------------------------------- claims
\* position and tilt are percentages
InRange == last_position \in 0 .. Full /\ last_tilt \in 0 .. Full

\* C1 (convergence): every _act(p, t) called from an in-range state, never
\* cancelled and with no dispatch failure, returns, and when it returns
\* position is within EPS of p and tilt within EPS of t.
C1_Convergence ==
    \A i \in Tasks :
      (tasks[i].pc = "act" /\ InRange)
        ~> (/\ tasks[i].pc = "done"
            /\ Near(tasks[i].tp, last_position)
            /\ Near(tasks[i].tt, last_tilt))

\* the raw command dispatched last, "none" before the first
LastSent == IF sent = <<>> THEN "none" ELSE sent[Len(sent)]

\* C2 (reversal safety): open_cover is never dispatched right after
\* close_cover, nor close_cover right after open_cover.
C2_ReversalSafety ==
    ~(/\ Len(sent) = 2
      /\ \/ sent[1] = "open_cover" /\ sent[2] = "close_cover"
         \/ sent[1] = "close_cover" /\ sent[2] = "open_cover")

\* coroutine i is inside an integrator's loop, suspended between two ticks

\* coroutine i has just returned from the _motor(STOPPED) of a cancel branch
InCancelBranch(i) == tasks[i].pc \in {"tilt_cancelled", "pos_cancelled"}

\* C3 (cancellation): while cancel_requested stays set (a stop, and no
\* command after it) no step changes position or tilt; a loop suspended
\* between ticks takes its cancel branch when it resumes; and direction is
\* STOPPED when the cancel branch has stopped the motor and returns.
C3_Cancellation ==
    /\ [][/\ (cancel_requested /\ cancel_requested')
               => (last_position' = last_position /\ last_tilt' = last_tilt)
          /\ \A i \in Tasks :
               (BetweenTicks(i) /\ cancel_requested /\ tasks'[i].pc # tasks[i].pc)
                 => (tasks'[i].cancelled /\ tasks'[i].mdir = STOPPED
                     /\ tasks'[i].mret \in {"tilt_cancelled", "pos_cancelled"})]_vars
    /\ [](\A i \in Tasks : InCancelBranch(i) => last_direction = STOPPED)

\* a stop was called while coroutine i slept in the position loop with the
\* cover part-way, and i has taken the cancel branch and stopped the motor
C3_Witness ==
    \E i, j \in Tasks :
      /\ tasks[i].pc = "pos_cancelled"
      /\ tasks[j].cmd = "stop"
      /\ last_position > 0 /\ last_position < Full
      /\ LastSent = "stop_cover"

\* C4: an _act one of whose integrators has taken the cancel branch
\* dispatches no open_cover or close_cover before it returns.
C4_NoLaterPhase ==
    \A i \in Tasks :
      tasks[i].cancelled => ~(tasks[i].pc = "m_sent" /\ tasks[i].mdir \in {UP, DOWN})

\* a _motor call of coroutine i in which a dispatch has failed returns
FailedMotorReturns(i) == MotorCmdFail(i) \/ (tasks[i].mfail /\ MotorSet(i))

\* C5 (fail safe): when a _motor call in which a dispatch failed returns,
\* cancel_requested is true and direction is STOPPED.
C5_FailSafe ==
    [][\A i \in Tasks :
         FailedMotorReturns(i) => (cancel_requested' /\ last_direction' = STOPPED)]_vars

\* coroutine i is an _act that has not returned
ActInProgress(i) ==
    /\ tasks[i].pc \notin {"free", "returned", "done"}
    /\ tasks[i].cmd # "stop"

\* C6 (exclusivity): at most one _act is in progress at any time.
C6_Exclusive == Cardinality({i \in Tasks : ActInProgress(i)}) <= 1

\* C7 (clamp invariant): once the entity is set up, a step from a state
\* with position and tilt in 0..100 leads to a state with both in 0..100.
C7_Clamp == [][(added /\ InRange) => InRange']_vars

\* an integration step of the tilt loop went below 0 and was clamped: the
\* tilt is 0 after a step towards 1 percent
C7_Witness ==
    \E i \in Tasks :
      /\ tasks[i].pc = "tilt_sleep"
      /\ tasks[i].itgt = Scale
      /\ last_tilt = 0

\* a second _motor(d) has returned to coroutine i
TwiceDone(i) == tasks[i].cmd = "motor_twice" /\ tasks[i].pc = "done"

\* _motor(d) is entered by coroutine i with the direction already d
MotorKeep(i) == At(i, "motor") /\ tasks[i].mdir = last_direction /\ Motor(i)

NoMotorInFlight ==
    \A i \in Tasks :
      tasks[i].pc \notin {"motor", "m_stop", "m_stop_sent", "m_sleep", "m_cmd", "m_sent"}

\* direction and the raw command dispatched last agree
DirectionMatchesSent ==
    /\ last_direction = UP <=> LastSent = "open_cover"
    /\ last_direction = DOWN <=> LastSent = "close_cover"
    /\ last_direction = STOPPED <=> LastSent \in {"stop_cover", "none"}

\* C9: whenever no _motor call is mid-flight, direction is UP iff the raw
\* command dispatched last is open_cover, DOWN iff it is close_cover, and
\* STOPPED iff it is stop_cover or nothing was ever dispatched.  Stated of
\* every step after set-up that writes the direction or dispatches, so that
\* a direction restored at set-up is taken as dispatched before the restart.
C9_DirectionReflectsDispatch ==
    [][(/\ added
        /\ last_direction' # last_direction \/ sent' # sent
        /\ NoMotorInFlight') => DirectionMatchesSent']_vars

\* the _act of a set_position called by coroutine i has returned
SetPositionDone(i) == tasks[i].cmd = "set_position" /\ tasks[i].pc = "done"

\* C10: when set_position(p), called with the cover at position c, has run
\* to its end, position is p, tilt is 0 if p < c and 100 otherwise (p = c
\* included), direction is STOPPED, and the published integers say so.
C10_SetPosition ==
    \A i \in Tasks :
      SetPositionDone(i) =>
        LET tilt == IF tasks[i].below THEN 0 ELSE Full
        IN  /\ Near(tasks[i].tp, last_position)
            /\ Near(tilt, last_tilt)
            /\ last_direction = STOPPED
            /\ attr.position * Scale = tasks[i].tp
            /\ attr.tilt * Scale = tilt

\* set_position(30) from position 50 has ended at 30 with the slats closed
C10_Witness ==
    \E i \in Tasks :
      /\ SetPositionDone(i)
      /\ tasks[i].below
      /\ last_position = 30 * Scale
      /\ last_tilt = 0

\* set_position(30) called at position 30 has ended with the slats open
C10_WitnessSame ==
    \E i \in Tasks :
      /\ SetPositionDone(i)
      /\ ~tasks[i].below
      /\ tasks[i].tp = 30 * Scale
      /\ last_position = 30 * Scale
      /\ last_tilt = Full

\* coroutine i runs a set_tilt before and after the step
InSetTilt(i) == tasks[i].cmd = "set_tilt" /\ tasks'[i].cmd = "set_tilt"

\* the step leaves position alone and keeps coroutine i off the move
\* sequence of _act (no pre-tilt, no _act_position)
KeepsPosition(i) ==
    /\ last_position' = last_position
    /\ tasks'[i].mret # "pre_tilt"
    /\ tasks'[i].pc \notin {"pos", "pos_sleep"}

\* C11: set_tilt(t) takes the tilt-only or idle path, and no step of its
\* execution changes position, so position at every tick and at the return
\* is position at the call.
C11_TiltLeavesPosition ==
    [][\A i \in Tasks : InSetTilt(i) => KeepsPosition(i)]_vars

\* coroutine i runs an open() or a close() called on a stopped cover
OpenOrClose(i) == tasks[i].cmd \in {"open", "close"} /\ tasks[i].stopped

\* the direction of open() and of close(), and their target
MoveDirection(i) == IF tasks[i].cmd = "open" THEN UP ELSE DOWN
MoveTarget(i) == IF tasks[i].cmd = "open" THEN Full ELSE 0

\* C12: open() on a stopped cover, run to its end, has direction go
\* STOPPED -> UP -> STOPPED only, dispatches open_cover then stop_cover and
\* nothing else (never close_cover, no reversal stop), and ends with position
\* 100, tilt 100, direction STOPPED; close() likewise with DOWN, close_cover
\* and 0.  Each call of _motor in _act is made at most once, so the dispatches
\* are told by the call that makes them.  An open() of a cover already fully
\* open (idle path), which dispatches nothing, is not held against it.
C12_OpenClose ==
    \A i \in Tasks :
      OpenOrClose(i) =>
        /\ last_direction \in {STOPPED, MoveDirection(i)}
        /\ tasks[i].pc \notin {"m_stop", "m_stop_sent", "m_sleep"}
        /\ tasks[i].pc \in {"m_cmd", "m_sent"} =>
              \/ /\ tasks[i].mdir = MoveDirection(i)
                 /\ tasks[i].mret \in {"tilt_only", "pre_tilt"}
                 /\ last_direction = STOPPED
              \/ /\ tasks[i].mdir = STOPPED
                 /\ tasks[i].mret = "act_end"
                 /\ last_direction = MoveDirection(i)
        /\ tasks[i].pc = "act_end" =>
              sent = <<RawOf(MoveDirection(i)), "stop_cover">>
        /\ tasks[i].pc = "done" =>
              /\ last_position = MoveTarget(i)
              /\ last_tilt = MoveTarget(i)
              /\ last_direction = STOPPED

\* the cover's state as a record of the four restored fields
RestoredFields ==
    [position |-> last_position, tilt |-> last_tilt,
     ts |-> last_timestamp_millis, direction |-> last_direction]

\* snapshot s restored field by field: each field that is present and valid
\* replaces the constructor's value, whatever the other fields are
FieldByField(s) ==
    [position |-> IF s.p.k = "ok" THEN s.p.v ELSE last_position,
     tilt |-> IF s.t.k = "ok" THEN s.t.v ELSE last_tilt,
     ts |-> IF s.ts.k = "ok" THEN "restored" ELSE last_timestamp_millis,
     direction |-> IF s.d \in Directions THEN s.d ELSE last_direction]

\* the step is async_added_to_hass restoring snapshot s
Restores(s) == ~added /\ added' /\ RestoredFields' = RestoredState(s)

\* C13: restore is field by field: what async_added_to_hass makes of a
\* snapshot is, for each of position, tilt, timestamp and direction, the
\* persisted value if that value is valid and the default otherwise; an
\* invalid direction or a malformed field leaves the other fields restored.
C13_FieldByField ==
    [][\A s \in Snapshots : Restores(s) => RestoredFields' = FieldByField(s)]_vars

\* the part of C13 about an invalid direction: position and tilt of the
\* snapshot are restored and the direction stays STOPPED
C13_InvalidDirection ==
    [][\A s \in Snapshots :
         (Restores(s) /\ s.d = "SIDEWAYS")
           => (last_position' = s.p.v /\ last_tilt' = s.t.v /\ last_direction' = STOPPED)]_vars

\* the published integer position and tilt are percentages
PublishedInRange == attr.position \in 0 .. 100 /\ attr.tilt \in 0 .. 100

\* C14: when async_added_to_hass has applied a persisted snapshot, whatever
\* numbers it holds, position and tilt are within 0..100 and so are the
\* published integer position and tilt.
C14_RestoreInRange ==
    [][(~added /\ added') => (InRange' /\ PublishedInRange')]_vars

\* every coroutine is suspended or has returned: the event loop is free
AtSuspension == added /\ running = 0

\* C15 (publication ordering): every change of position, tilt or direction
\* is published before the coroutine that made it next suspends, so whenever
\* the event loop is free the published snapshot is the cover's state.
C15_PublishedAtSuspension ==
    AtSuspension => attr = Published(last_position, last_tilt, last_direction)

\* the step is coroutine i calling set_position_and_tilt with neither
\* argument and returning at once
SetBothNoOp(i) ==
    /\ tasks[i].pc = "free"
    /\ tasks'[i].cmd = "set_both"
    /\ tasks'[i].pc = "done"

\* C16: set_position_and_tilt passes to _act the targets of set_position(p)
\* when only position = p is given, those of set_tilt(t) when only tilt = t
\* is given, and (p, t) when both are; with neither it changes no state,
\* dispatches nothing and leaves cancel_requested as it is.
C16_SetBoth ==
    /\ [](/\ \A p \in 0 .. 100 : SetBothTargets(p, NoArg) = SetPositionTargets(p)
          /\ \A t \in 0 .. 100 : SetBothTargets(NoArg, t) = SetTiltTargets(t)
          /\ \A p, t \in {0, 1, 30, 100} : SetBothTargets(p, t) = <<p * Scale, t * Scale>>)
    /\ [][\A i \in Tasks :
           SetBothNoOp(i) =>
             UNCHANGED <<last_position, last_tilt, last_timestamp_millis, last_direction,
                         cancel_requested, attr, sent>>]_vars

\* set_position_and_tilt(position = 30) was called at position 50 and has
\* passed (30, 0) to _act
C16_Witness ==
    \E i \in Tasks :
      /\ tasks[i].cmd = "set_both"
      /\ tasks[i].pc = "act"
      /\ last_position = 50 * Scale
      /\ tasks[i].tp = 30 * Scale
      /\ tasks[i].tt = 0

\* set_position_and_tilt() with neither argument has returned while the
\* cancel flag of an earlier stop is still set
C16_WitnessNoOp ==
    \E i \in Tasks :
      /\ tasks[i].cmd = "set_both"
      /\ tasks[i].pc = "done"
      /\ tasks[i].mret = "free" /\ tasks[i].tp = 0 /\ tasks[i].tt = 0
      /\ cancel_requested

\* a step from current to next gets strictly closer to target and does not
\* pass it
Approaches(current, next, target) ==
    /\ Abs(target - next) < Abs(target - current)
    /\ current < target => next <= target
    /\ current > target => next >= target

\* C17 (loop invariant): every integration step of _act_tilt and of
\* _act_position strictly reduces the distance to the target and never moves
\* past it, so the sign of target - current never flips during a call.
C17_NoOvershoot ==
    [][\A i \in Tasks :
         /\ TiltStep(i) => Approaches(last_tilt, last_tilt', tasks[i].itgt)
         /\ PosStep(i) => Approaches(last_position, last_position', tasks[i].itgt)]_vars

\* coroutine i is in the pre-tilt of a move sequence
InPreTilt(i) == tasks[i].pc \in {"tilt", "tilt_sleep"} /\ tasks[i].iret = "position"

FailedAct(i) == tasks[i].failed /\ tasks[i].cmd # "stop"

\* C19: once a dispatch has failed during an _act, and no other command is
\* issued, no step changes position or tilt until that _act has returned:
\* no integration step is made and position and tilt at the return are
\* those at the failure.
C19_FailureHalts ==
    [][\A i \in Tasks :
         FailedAct(i) => (last_position' = last_position /\ last_tilt' = last_tilt)]_vars

\* a move to position 100 with target tilt 0 has returned after a dispatch
\* of its post-tilt failed: position is 100 and the slats are still open
C19_Witness ==
    \E i \in Tasks :
      /\ FailedAct(i)
      /\ tasks[i].pc = "done"
      /\ tasks[i].tp = Full /\ last_position = Full
      /\ tasks[i].tt = 0 /\ last_tilt = Full

\* C20 (a stop is never lost): an _act that was asleep in an integrator
\* when async_stop_cover was called makes no further integration step, of
\* tilt or of position, whatever command is called before its next tick.
C20_StopNotLost ==
    [][\A i \in Tasks : tasks[i].halted => ~(TiltStep(i) \/ PosStep(i))]_vars

\* C23 (the motor is never left running): whenever every command called
\* has returned and at least one raw command has been dispatched, direction
\* is STOPPED and the last raw command dispatched is stop_cover.
C23_MotorNeverLeftRunning ==
    (Quiet /\ sent # <<>>) => (last_direction = STOPPED /\ LastSent = "stop_cover")

\* an integration step from value a to value b agrees with the direction
\* the state holds while it is made
MatchesDirection(a, b) ==
    /\ last_direction # STOPPED
    /\ b > a => last_direction = UP
    /\ b < a => last_direction = DOWN

\* C22 (motion matches the commanded direction): every integration step
\* that increases tilt or position is made while direction is UP, every
\* step that decreases them while direction is DOWN, and none while
\* direction is STOPPED.
C22_MotionMatchesDirection ==
    [][\A i \in Tasks :
         /\ TiltStep(i) => MatchesDirection(last_tilt, last_tilt')
         /\ PosStep(i) => MatchesDirection(last_position, last_position')]_vars

\* a command is called while the _act of an earlier one sleeps in an
\* integrator
Superseding(i, j) ==
    /\ i # j
    /\ BetweenTicks(i)
    /\ tasks[j].pc = "act"

\* every call has returned and the cover rests at (p, t)
RestsAt(p, t) ==
    /\ Quiet
    /\ Near(p, last_position)
    /\ Near(t, last_tilt)
    /\ last_direction = STOPPED

\* C21 (a newer command supersedes): with a fair event loop, no stop and no
\* dispatch failure, when open() or close() is called while the _act of an
\* earlier command is integrating, eventually every _act has returned and
\* the cover rests at the newer command's targets (100/100 for open, 0/0
\* for close) with direction STOPPED.
C21_Supersedes ==
    \A i, j \in Tasks :
      /\ (Superseding(i, j) /\ tasks[j].cmd = "open") ~> RestsAt(Full, Full)
      /\ (Superseding(i, j) /\ tasks[j].cmd = "close") ~> RestsAt(0, 0)

====
